---- MODULE Spec2Model ----
(***************************************************************************)
(* A model of gopilot's main.go: the socket event loop with its request    *)
(* registry, the provider callbacks (OnDataReady, OnQuit) that the         *)
(* gateway's HandleEvents goroutine runs, and run()/connect() with the     *)
(* retry ticker, the timeout timer and the shutdown channels.              *)
(*                                                                         *)
(* Three goroutines take steps: main (run), the socket loop                *)
(* (handleSocketMessages) and the provider loop (HandleEvents), plus the   *)
(* termination-signal handler.  A socket handler is one step; OnDataReady  *)
(* is one step per iteration of its range loop, because it runs on another *)
(* goroutine than the socket handlers and no lock orders the two.          *)
(***************************************************************************)
EXTENDS Integers, Sequences, FiniteSets, TLC

\* ------------------------------------------------------------------ bounds
MaxTimeout == 3
MaxHandles == 2
MaxRequests == 2
\* socket events handled while one OnDataReady callback runs
MaxDuring == 1

\* ------------------------------------------------------- program constants
connectRetrySeconds == 1

\* ------------------------------------------------------------ input domains
Clients == {"c1", "c2"}
Metas == {"panel1", "panel2"}
K1 == [name |-> "AIRSPEED TRUE", unit |-> "knot", typ |-> "Float64"]
K2 == [name |-> "AIRSPEED TRUE", unit |-> "mph", typ |-> "Float64"]
K3 == [name |-> "PLANE ALTITUDE", unit |-> "feet", typ |-> "Int32"]
Keys == {K1, K2, K3}
Names == {k.name : k \in Keys}
Entry(k, m) == [key |-> k, moniker |-> m]
\* the "data" arrays of the register messages clients send: none, one or two
\* entries; one variable under either moniker, the same name in another unit,
\* another variable, two variables under one moniker, one variable twice
DataLists ==
  { <<>>,
    <<Entry(K1, "spd")>>,
    <<Entry(K1, "airspeed")>>,
    <<Entry(K2, "spd")>>,
    <<Entry(K3, "airspeed")>>,
    <<Entry(K1, "spd"), Entry(K3, "airspeed")>>,
    <<Entry(K1, "spd"), Entry(K3, "spd")>>,
    <<Entry(K1, "spd"), Entry(K1, "airspeed")>> }
\* what the gateway holds for a definition when OnDataReady reads it: nothing
\* yet, a finite number, or (floats only) a NaN the simulator delivered
Raw == {"nil", "num", "nan"}
\* how AddSimVar (outside this repository) picks the define id: always a new
\* one, or the live one of the same (name, unit, type) when there is one
IdPolicies == {"fresh", "key"}

VARIABLES
  Requests,        \* app.requestManager.Requests: sequence of Request
  simVars,         \* the gateway's live definitions: define id -> key
  nextDefineID,    \* the gateway's define-id counter
  idPolicy,        \* the gateway's id policy (fixed for a run)
  conn,            \* transport: client -> "new" | "open" | "closed"
  pcTick,          \* HandleEvents goroutine: off | idle | loop | done | quitBlocked
  todo,            \* OnDataReady: the rest of the ranged Requests slice
  outbox,          \* transport calls of the running OnDataReady, in order
  during,          \* socket events handled since the running OnDataReady began
  writes,          \* the SetSimObjectData calls of the socket message handled last
  unhandled,       \* that message was printed as "Received unhandled message"
  mateVal,         \* the values the gateway has answered the running OnDataReady with: id -> Raw
  pcMain,          \* run(): init | connect | wait | exited, or dead (the process is gone)
  mateSet,         \* app.mate # nil
  mateConnected,   \* mate.IsConnected()
  timeoutSeconds,  \* params.timeout, connect()'s argument (0 once connect() has returned nil)
  clock,           \* seconds since connect() made its ticker and timer
  tickC,           \* connectTicker.C holds a tick (buffer 1)
  timerC,          \* timeoutTimer.C holds the timeout
  count,           \* connect()'s count: Open attempts
  done,            \* app.done: [buf, closed]
  serverShutdown,  \* serverShutdown: [buf, closed]
  pcSig,           \* handleTerminationSignal: off | wait | blocked | sent
  closeCalls,      \* calls of mate.Close
  quit,            \* OnQuit has been delivered
  exitHow          \* "" while running, else how run() ended

regVars == <<Requests, simVars, nextDefineID, conn>>
tickVars == <<pcTick, todo, outbox, mateVal, during>>
connectVars == <<timeoutSeconds, clock, tickC, timerC, count>>
chanVars == <<done, serverShutdown>>
vars == <<Requests, simVars, nextDefineID, idPolicy, conn,
          pcTick, todo, outbox, mateVal, during, writes, unhandled,
          pcMain, mateSet, mateConnected, timeoutSeconds, clock, tickC, timerC, count,
          done, serverShutdown, pcSig, closeCalls, quit, exitHow>>

\* ----------------------------------------------------------------- helpers
Min(S) == CHOOSE x \in S : \A y \in S : x <= y

RECURSIVE SetToSeq(_)
SetToSeq(S) == IF S = {} THEN <<>> ELSE <<Min(S)>> \o SetToSeq(S \ {Min(S)})

RECURSIVE Flatten(_)
Flatten(ss) == IF ss = <<>> THEN <<>> ELSE Head(ss) \o Flatten(Tail(ss))

Alive == pcMain # "dead"

\* the process ends (main returns, or a goroutine panics): its goroutines,
\* its memory and its connections are gone
ProcessGone ==
  /\ pcMain' = "dead"
  /\ Requests' = <<>> /\ simVars' = <<>> /\ nextDefineID' = 1
  /\ conn' = [c \in Clients |-> "closed"]
  /\ pcTick' = "off" /\ todo' = <<>> /\ outbox' = <<>> /\ mateVal' = <<>> /\ during' = 0
  /\ writes' = <<>> /\ unhandled' = FALSE
  /\ pcSig' = "off"
  /\ tickC' = FALSE /\ timerC' = FALSE
  /\ UNCHANGED <<idPolicy, mateSet, timeoutSeconds, clock, count, quit>>

Panic(how) ==
  /\ ProcessGone
  /\ exitHow' = how
  /\ UNCHANGED <<mateConnected, done, serverShutdown, closeCalls>>

\* ------------------------------------------------- Request, RequestManager
NewRequest(connID, meta) == [ClientID |-> connID, Meta |-> meta, Vars |-> <<>>]

RequestAdd(request, defineID, name, moniker) ==
  [request EXCEPT !.Vars = (defineID :> [Name |-> name, Moniker |-> moniker]) @@ @]

AddRequest(reqs, request) == Append(reqs, request)

RefCount(reqs, name) ==
  Cardinality({p \in UNION {{<<i, h>> : h \in DOMAIN reqs[i].Vars} : i \in 1..Len(reqs)} :
                 reqs[p[1]].Vars[p[2]].Name = name})

\* ------------------------------------------------------------ the gateway
AddSimVar(defs, next, key) ==
  LET same == IF idPolicy = "fresh" THEN {} ELSE {h \in DOMAIN defs : defs[h] = key}
  IN IF same # {}
       THEN [id |-> Min(same), defs |-> defs, next |-> next]
       ELSE [id |-> next, defs |-> (next :> key) @@ defs, next |-> next + 1]

RemoveSimVar(defs, defineID) == [h \in DOMAIN defs \ {defineID} |-> defs[h]]

\* cache: the value the gateway holds for each live definition
SimVarValueAndDataType(cache, defineID) ==
  IF defineID \in DOMAIN simVars /\ defineID \in DOMAIN cache
    THEN [value |-> cache[defineID], dataType |-> simVars[defineID].typ, ok |-> TRUE]
    ELSE [value |-> "nil", dataType |-> "", ok |-> FALSE]

\* ------------------------------------------------- the socket event loop
\* the ArrayEach callback of handleRegisterMessage, entry by entry; calls
\* lists the gateway calls it makes
RECURSIVE RegisterEach(_, _)
RegisterEach(data, st) ==
  IF data = <<>> THEN st
  ELSE LET e == Head(data)
           a == AddSimVar(st.defs, st.next, e.key)
       IN RegisterEach(Tail(data),
            [request |-> RequestAdd(st.request, a.id, e.key.name, e.moniker),
             defs |-> a.defs,
             next |-> a.next,
             calls |-> Append(st.calls, [key |-> e.key, id |-> a.id])])

Registered(connID, meta, data) ==
  RegisterEach(data, [request |-> NewRequest(connID, meta), defs |-> simVars,
                      next |-> nextDefineID, calls |-> <<>>])

handleRegisterMessage(connID, meta, data) ==
  LET st == Registered(connID, meta, data)
  IN /\ st.next <= MaxHandles + 1
     /\ Requests' = AddRequest(Requests, st.request)
     /\ simVars' = st.defs
     /\ nextDefineID' = st.next

\* removeRequests: the slice without connID's requests, and the define ids it
\* hands to RemoveSimVar (a map is ranged in no fixed order; the ids are taken
\* in ascending order here, the outcome does not depend on the order)
\* a partition that keeps every Request, the client's own included
KeptRequestsAll(reqs, connID) == reqs

KeptRequests(reqs, connID) == SelectSeq(reqs, LAMBDA r : r.ClientID # connID)

RemovedRequests(reqs, connID) == SelectSeq(reqs, LAMBDA r : r.ClientID = connID)

\* a removal that does not ask RefCount
RemovedIDsOfAny(temp, request) == SetToSeq(DOMAIN request.Vars)

RemovedIDsOf(temp, request) ==
  SelectSeq(SetToSeq(DOMAIN request.Vars),
            LAMBDA h : RefCount(temp, request.Vars[h].Name) = 0)

RemovedIDs(temp, removed) ==
  Flatten([i \in 1..Len(removed) |-> RemovedIDsOf(temp, removed[i])])

\* the define ids removeRequests(connID) hands to RemoveSimVar, call by call
RemoveCalls(connID) ==
  RemovedIDs(KeptRequests(Requests, connID), RemovedRequests(Requests, connID))

RECURSIVE RemoveAll(_, _)
RemoveAll(defs, ids) ==
  IF ids = <<>> THEN defs ELSE RemoveAll(RemoveSimVar(defs, Head(ids)), Tail(ids))

\* a removal that stops at the client's first Request
removeRequestsFirst(connID) ==
  LET own == {i \in 1..Len(Requests) : Requests[i].ClientID = connID}
  IN /\ Requests' = IF own = {} THEN Requests
                    ELSE [j \in 1..(Len(Requests) - 1) |->
                            IF j < Min(own) THEN Requests[j] ELSE Requests[j + 1]]
     /\ simVars' = RemoveAll(simVars, RemoveCalls(connID))
     /\ UNCHANGED nextDefineID

removeRequests(connID) ==
  /\ Requests' = KeptRequests(Requests, connID)
  /\ simVars' = RemoveAll(simVars, RemoveCalls(connID))
  /\ UNCHANGED nextDefineID

InOnDataReady == pcTick \in {"loop", "done"}

loopFrame ==
  /\ InOnDataReady => during < MaxDuring
  /\ during' = IF InOnDataReady THEN during + 1 ELSE during
  /\ UNCHANGED <<pcTick, todo, outbox, mateVal>> /\ UNCHANGED connectVars /\ UNCHANGED chanVars
  /\ UNCHANGED <<idPolicy, pcMain, mateSet, mateConnected, pcSig, closeCalls, quit, exitHow>>

\* the handlers that write nothing to the simulator
socketFrame ==
  /\ loopFrame
  /\ writes' = <<>> /\ unhandled' = FALSE

ClientConnected(c) ==
  /\ Alive /\ conn[c] = "new"
  /\ conn' = [conn EXCEPT ![c] = "open"]
  /\ UNCHANGED <<Requests, simVars, nextDefineID>>
  /\ socketFrame

ClientDisconnected(c) ==
  /\ Alive /\ conn[c] = "open"
  /\ conn' = [conn EXCEPT ![c] = "closed"]
  /\ removeRequests(c)
  /\ socketFrame

Deregister(c) ==
  /\ Alive /\ conn[c] = "open"
  /\ removeRequests(c)
  /\ UNCHANGED conn
  /\ socketFrame

\* a nil app.mate (run() has not reached NewSimMate) panics the process on
\* the first call through it
Register(c, meta, data) ==
  /\ Alive /\ conn[c] = "open"
  /\ Len(Requests) < MaxRequests
  /\ IF ~mateSet /\ data # <<>>
       THEN Panic("panic: nil mate")
       ELSE /\ handleRegisterMessage(c, meta, data)
            /\ UNCHANGED conn
            /\ socketFrame

\* ---- the messages with a "data" object: setdata, teleport and the rest
\* a decoded JSON value in msg.Data (map[string]interface{}): a number is a
\* float64, a string a string, an absent key reads as nil
Num(x) == [kind |-> "number", v |-> x]
Str(x) == [kind |-> "string", v |-> x]
Missing == [kind |-> "nil", v |-> 0]
Fields == {"name", "unit", "value", "latitude", "longitude", "altitude", "heading",
           "airspeed", "bank", "pitch"}
\* msg.Data with the given members; a message without a "data" object leaves
\* the map nil, which reads like an empty one
Obj(members) == [f \in Fields |-> IF f \in DOMAIN members THEN members[f] ELSE Missing]
NoData == [f \in Fields |-> Missing]

GoodTeleport ==
  [latitude |-> Num(47), longitude |-> Num(8), altitude |-> Num(1200),
   heading |-> Num(90), airspeed |-> Num(120), bank |-> Num(30), pitch |-> Num(10)]
GoodSetData == [name |-> Str("AIRSPEED TRUE"), unit |-> Str("knot"), value |-> Num(120)]

\* the messages clients send besides register and deregister: well-formed
\* and malformed setdata and teleport, and types the switch does not know
\* ("" is what a failed decode leaves in msg.Type)
DataMessages ==
  { [type |-> "teleport", data |-> Obj(GoodTeleport)],
    [type |-> "teleport", data |-> Obj([GoodTeleport EXCEPT !.latitude = Missing])],
    [type |-> "teleport", data |-> Obj([GoodTeleport EXCEPT !.airspeed = Str("fast")])],
    [type |-> "teleport", data |-> NoData],
    [type |-> "setdata", data |-> Obj(GoodSetData)],
    [type |-> "setdata", data |-> Obj([GoodSetData EXCEPT !.value = Str("120")])],
    [type |-> "setdata", data |-> Obj([GoodSetData EXCEPT !.unit = Missing])],
    [type |-> "setdata", data |-> NoData],
    [type |-> "", data |-> NoData],
    [type |-> "ping", data |-> Obj(GoodSetData)],
    [type |-> "Teleport", data |-> Obj(GoodTeleport)] }

\* x.(float64) and x.(string): the single-value type assertion panics unless
\* the value has that type
IsFloat64(x) == x.kind = "number"
IsString(x) == x.kind = "string"

SetSimObjectData(name, unit, value, dataType) ==
  [name |-> name, unit |-> unit, value |-> value, dataType |-> dataType]

\* the seven calls of handleTeleportMessage, in order
TeleportWrites(data) ==
  << SetSimObjectData("PLANE LATITUDE", "degrees", data["latitude"].v, "Float64"),
     SetSimObjectData("PLANE LONGITUDE", "degrees", data["longitude"].v, "Float64"),
     SetSimObjectData("PLANE ALTITUDE", "feet", data["altitude"].v, "Float64"),
     SetSimObjectData("PLANE HEADING DEGREES TRUE", "degrees", data["heading"].v, "Float64"),
     SetSimObjectData("AIRSPEED TRUE", "knot", data["airspeed"].v, "Float64"),
     SetSimObjectData("PLANE BANK DEGREES", "degrees", 0, "Float64"),
     SetSimObjectData("PLANE PITCH DEGREES", "degrees", 0, "Float64") >>

\* a handler that has made its gateway calls and returns to the loop
Wrote(calls) ==
  /\ writes' = calls
  /\ unhandled' = FALSE
  /\ UNCHANGED regVars
  /\ loopFrame

handleTeleportMessage(msg) ==
  IF \E f \in {"latitude", "longitude", "altitude", "heading", "airspeed"} :
       ~IsFloat64(msg.data[f])
    THEN Panic("panic: interface conversion")
    ELSE IF ~mateSet
      THEN Panic("panic: nil mate")
      ELSE Wrote(TeleportWrites(msg.data))

handleSetDataMessage(msg) ==
  IF ~IsString(msg.data["name"]) \/ ~IsString(msg.data["unit"])
       \/ ~IsFloat64(msg.data["value"])
    THEN Panic("panic: interface conversion")
    ELSE IF ~mateSet
      THEN Panic("panic: nil mate")
      ELSE Wrote(<<SetSimObjectData(msg.data["name"].v, msg.data["unit"].v,
                                    msg.data["value"].v, "Float64")>>)

\* a default branch that falls into the deregister handler
UnhandledDeregisters(c, msg) ==
  /\ removeRequests(c)
  /\ UNCHANGED conn
  /\ writes' = <<>>
  /\ unhandled' = TRUE
  /\ loopFrame

\* default: fmt.Println("Received unhandled message", ...)
Unhandled(c, msg) ==
  /\ writes' = <<>>
  /\ unhandled' = TRUE
  /\ UNCHANGED regVars
  /\ loopFrame

\* case websockets.EventMessage for a message in DataMessages: the switch
\* on msg.Type
DataMessage(c, msg) ==
  /\ Alive /\ conn[c] = "open"
  /\ CASE msg.type = "setdata" -> handleSetDataMessage(msg)
       [] msg.type = "teleport" -> handleTeleportMessage(msg)
       [] msg.type \notin {"register", "deregister", "setdata", "teleport"} ->
            Unhandled(c, msg)

dataEvents == \E c \in Clients, msg \in DataMessages : DataMessage(c, msg)

\* the event loop, its register messages drawn from metas and lists
socketEvents(metas, lists) ==
  \E c \in Clients :
    \/ ClientConnected(c)
    \/ ClientDisconnected(c)
    \/ Deregister(c)
    \/ \E meta \in metas, data \in lists : Register(c, meta, data)

handleSocketMessages == socketEvents(Metas, DataLists)

\* ------------------------------------------- the provider loop's callbacks
FloatTypes == {"Float32", "Float64"}
StringTypes == {"String8", "String32", "String64", "String128", "String256",
                "String260", "StringV"}

\* the values a definition of data type typ can hold
RawOf(typ) == IF typ \in FloatTypes THEN Raw ELSE Raw \ {"nan"}

\* the switch of OnDataReady: the Go value stored under the moniker
GoTypeOf(dataType) ==
  CASE dataType = "Int32" -> "int32"
    [] dataType = "Int64" -> "int64"
    [] dataType = "Float32" -> "float32"
    [] dataType = "Float64" -> "float64"
    [] dataType \in StringTypes -> "string"
    [] OTHER -> "none"

\* define ids of the request whose value lands in vars
FoundIDs(cache, request) ==
  {h \in DOMAIN request.Vars :
     LET r == SimVarValueAndDataType(cache, h)
     IN r.ok /\ r.value # "nil" /\ GoTypeOf(r.dataType) # "none"}

ValueOf(cache, defineID) ==
  LET r == SimVarValueAndDataType(cache, defineID)
  IN [go |-> GoTypeOf(r.dataType), of |-> simVars[defineID], nan |-> (r.value = "nan")]

\* the vars map OnDataReady can build for a request: request.Vars is ranged
\* in no fixed order, so a moniker two define ids share ends with either value
DataChoices(cache, request) ==
  LET found == FoundIDs(cache, request)
      aliases == {request.Vars[h].Moniker : h \in found}
      picks == {f \in [aliases -> found] : \A a \in aliases : request.Vars[f[a]].Moniker = a}
  IN {[a \in aliases |-> ValueOf(cache, f[a])] : f \in picks}

SimvarsMessage(request, data) ==
  [type |-> "simvars", meta |-> request.Meta, data |-> data]

\* json.Marshal fails on a float that is not finite
Marshalable(msg) == \A a \in DOMAIN msg.data : ~msg.data[a].nan

SendCall(recipient, msg) == [call |-> "Send", to |-> {recipient}, msg |-> msg]

OpenConns == {c \in Clients : conn[c] = "open"}

\* the status payload with its flag under the field name connected
StatusMessageConnected(connected) ==
  [type |-> "status", data |-> [f \in {"connected"} |-> connected]]

StatusMessage(connected) ==
  [type |-> "status", data |-> [f \in {"simconnect"} |-> connected]]

\* a broadcast that reports the provider connected whatever IsConnected says
BroadcastStatusConnected ==
  [call |-> "Broadcast", to |-> OpenConns, msg |-> StatusMessage(TRUE)]

BroadcastStatusMessage ==
  [call |-> "Broadcast", to |-> OpenConns, msg |-> StatusMessage(mateConnected)]

\* the requests the range loop of OnDataReady visits
RangedRequests == Requests

tickFrame ==
  /\ UNCHANGED regVars /\ UNCHANGED connectVars /\ UNCHANGED chanVars
  /\ UNCHANGED <<writes, unhandled>>
  /\ UNCHANGED <<idPolicy, pcMain, mateSet, mateConnected, pcSig, closeCalls, quit, exitHow>>

\* HandleEvents has new data and calls OnDataReady: the range expression is
\* evaluated once
OnDataReadyBegin ==
  /\ Alive /\ pcTick = "idle"
  /\ pcTick' = "loop"
  /\ todo' = RangedRequests
  /\ outbox' = <<>>
  /\ UNCHANGED <<mateVal, during>>
  /\ tickFrame

\* the gateway's answers for the live definitions ids, given those it gave
\* earlier in this callback: its values do not change while the callback runs
Answers(known, ids) ==
  {f @@ known : f \in {g \in [ids \ DOMAIN known -> Raw] :
                          \A h \in DOMAIN g : g[h] \in RawOf(simVars[h].typ)}}

\* one iteration of the range loop
OnDataReadyRequest ==
  /\ Alive /\ pcTick = "loop" /\ todo # <<>>
  /\ \E cache \in Answers(mateVal, DOMAIN Head(todo).Vars \cap DOMAIN simVars) :
       /\ mateVal' = cache
       /\ \E data \in DataChoices(cache, Head(todo)) :
            LET msg == SimvarsMessage(Head(todo), data)
            IN outbox' = IF Marshalable(msg)
                           THEN Append(outbox, SendCall(Head(todo).ClientID, msg))
                           ELSE outbox
  /\ todo' = Tail(todo)
  /\ UNCHANGED <<pcTick, during>>
  /\ tickFrame

\* after the loop
OnDataReadyStatus ==
  /\ Alive /\ pcTick = "loop" /\ todo = <<>>
  /\ outbox' = Append(outbox, BroadcastStatusMessage)
  /\ pcTick' = "done"
  /\ UNCHANGED <<todo, mateVal, during>>
  /\ tickFrame

OnDataReadyReturn ==
  /\ Alive /\ pcTick = "done"
  /\ pcTick' = "idle"
  /\ outbox' = <<>>
  /\ mateVal' = <<>>
  /\ during' = 0
  /\ UNCHANGED todo
  /\ tickFrame

\* an OnQuit that prints and does not signal app.done
OnQuitSilent ==
  /\ Alive /\ pcTick = "idle"
  /\ quit' = TRUE
  /\ UNCHANGED regVars /\ UNCHANGED connectVars /\ UNCHANGED chanVars
  /\ UNCHANGED <<pcTick, todo, outbox, mateVal, during, writes, unhandled, idPolicy, pcMain,
                 mateSet, mateConnected, pcSig, closeCalls, exitHow>>

\* app.done <- true panics on a closed channel and blocks on a full one
OnQuit ==
  /\ Alive /\ pcTick = "idle"
  /\ IF done.closed
       THEN Panic("panic: send on closed channel") /\ quit' = TRUE
       ELSE /\ quit' = TRUE
            /\ IF done.buf = 0
                 THEN done' = [done EXCEPT !.buf = 1] /\ UNCHANGED pcTick
                 ELSE pcTick' = "quitBlocked" /\ UNCHANGED done
            /\ UNCHANGED regVars /\ UNCHANGED connectVars
            /\ UNCHANGED <<todo, outbox, mateVal, during, writes, unhandled, serverShutdown, idPolicy, pcMain,
                           mateSet, mateConnected, pcSig, closeCalls, exitHow>>

\* a send that blocked on the full buffer is completed by run()'s receive
\* (Shutdown); one still blocked when run() closes the channel panics
OnQuitUnblock ==
  /\ Alive /\ pcTick = "quitBlocked"
  /\ done.closed
  /\ Panic("panic: send on closed channel")

OnDataReady ==
  \/ OnDataReadyBegin
  \/ OnDataReadyRequest
  \/ OnDataReadyStatus
  \/ OnDataReadyReturn

HandleEvents ==
  \/ OnDataReady
  \/ OnQuit
  \/ OnQuitUnblock

\* ------------------------------------------------ handleTerminationSignal
SigTerm ==
  /\ Alive /\ pcSig = "wait"
  /\ IF done.closed
       THEN Panic("panic: send on closed channel")
       ELSE /\ IF done.buf = 0
                 THEN done' = [done EXCEPT !.buf = 1] /\ pcSig' = "sent"
                 ELSE pcSig' = "blocked" /\ UNCHANGED done
            /\ UNCHANGED regVars /\ UNCHANGED tickVars /\ UNCHANGED connectVars
            /\ UNCHANGED <<writes, unhandled>>
            /\ UNCHANGED <<serverShutdown, idPolicy, pcMain, mateSet, mateConnected,
                           closeCalls, quit, exitHow>>

SigTermUnblock ==
  /\ Alive /\ pcSig = "blocked"
  /\ done.closed
  /\ Panic("panic: send on closed channel")

handleTerminationSignal == SigTerm \/ SigTermUnblock

\* ------------------------------------------------------ run and connect
TickDue(clk) == clk % connectRetrySeconds = 0

\* a timer that fires one second late
TimerDueLate(clk) == clk > timeoutSeconds

TimerDue(clk) == clk >= timeoutSeconds

mainFrame ==
  /\ UNCHANGED regVars
  /\ UNCHANGED <<todo, outbox, mateVal, during, writes, unhandled, idPolicy, quit>>

\* simconnect.Initialize and NewSimMate; connect() then makes its ticker and
\* its timer (a timer of 0 seconds is due at once)
NewSimMate ==
  /\ pcMain = "init"
  /\ \/ /\ Panic("panic: Initialize")
     \/ /\ pcMain' = "connect"
        /\ mateSet' = TRUE
        /\ timerC' = TimerDue(0)
        /\ UNCHANGED <<mateConnected, timeoutSeconds, clock, tickC, count, closeCalls,
                       exitHow, pcTick, pcSig>>
        /\ UNCHANGED chanVars
        /\ mainFrame

\* a second passes while connect() waits in its select: the goroutine is
\* woken as soon as a case is ready, and Open returns within the second
TimePasses ==
  /\ pcMain = "connect" /\ ~tickC /\ ~timerC
  /\ clock' = clock + 1
  /\ tickC' = TickDue(clock + 1)
  /\ timerC' = TimerDue(clock + 1)
  /\ UNCHANGED <<pcMain, mateSet, mateConnected, timeoutSeconds, count, closeCalls,
                 exitHow, pcTick, pcSig>>
  /\ UNCHANGED chanVars
  /\ mainFrame

\* what connect() and run() do once Open has answered: on success connect()
\* returns nil (its defers stop the ticker and the timer, its locals are gone)
\* and run() starts handleTerminationSignal and HandleEvents
\* a run() that starts the provider's event loop before Open has succeeded
OpenedLoopFirst(ok) ==
  IF ok
    THEN /\ mateConnected' = TRUE
         /\ pcMain' = "wait"
         /\ pcSig' = "wait"
         /\ pcTick' = "idle"
         /\ count' = 0 /\ clock' = 0 /\ timeoutSeconds' = 0
         /\ tickC' = FALSE /\ timerC' = FALSE
    ELSE /\ count' = count + 1
         /\ tickC' = FALSE
         /\ pcTick' = "idle"
         /\ UNCHANGED <<mateConnected, pcMain, pcSig, clock, timeoutSeconds, timerC>>

Opened(ok) ==
  IF ok
    THEN /\ mateConnected' = TRUE
         /\ pcMain' = "wait"
         /\ pcSig' = "wait"
         /\ pcTick' = "idle"
         /\ count' = 0 /\ clock' = 0 /\ timeoutSeconds' = 0
         /\ tickC' = FALSE /\ timerC' = FALSE
    ELSE /\ count' = count + 1
         /\ tickC' = FALSE
         /\ UNCHANGED <<mateConnected, pcMain, pcSig, pcTick, clock, timeoutSeconds, timerC>>

\* case <-connectTicker.C
ConnectAttempt ==
  /\ pcMain = "connect" /\ tickC
  /\ \E ok \in BOOLEAN : Opened(ok)
  /\ UNCHANGED <<mateSet, closeCalls, exitHow>>
  /\ UNCHANGED chanVars
  /\ mainFrame

\* case <-timeoutTimer.C: connect() returns the error, run() prints it and
\* returns (deferred close(serverShutdown))
ConnectTimeout ==
  /\ pcMain = "connect" /\ timerC
  /\ pcMain' = "exited"
  /\ exitHow' = "timeout"
  /\ tickC' = FALSE /\ timerC' = FALSE
  /\ serverShutdown' = [serverShutdown EXCEPT !.closed = TRUE]
  /\ UNCHANGED <<mateSet, mateConnected, timeoutSeconds, clock, count, closeCalls,
                 done, pcTick, pcSig>>
  /\ mainFrame

\* the senders blocked in app.done <- true
BlockedSenders ==
  (IF pcSig = "blocked" THEN {"signal"} ELSE {}) \cup
  (IF pcTick = "quitBlocked" THEN {"quit"} ELSE {})

\* <-app.done, app.disconnect(), then serverShutdown <- true and return, or
\* panic(err); the deferred closes run either way.  The receive hands the
\* freed buffer slot to one sender blocked on the channel, if there is one.
Shutdown ==
  /\ pcMain = "wait" /\ done.buf = 1
  /\ closeCalls' = closeCalls + 1
  /\ \E w \in (IF BlockedSenders = {} THEN {"none"} ELSE BlockedSenders), ok \in BOOLEAN :
       /\ done' = [buf |-> IF w = "none" THEN 0 ELSE 1, closed |-> TRUE]
       /\ IF ok
            THEN /\ mateConnected' = FALSE
                 /\ serverShutdown' = [buf |-> 1, closed |-> TRUE]
                 /\ pcMain' = "exited"
                 /\ exitHow' = "bye"
                 /\ pcSig' = IF w = "signal" THEN "sent" ELSE pcSig
                 /\ pcTick' = IF w = "quit" THEN "idle" ELSE pcTick
                 /\ UNCHANGED mateSet
                 /\ UNCHANGED connectVars
                 /\ mainFrame
            ELSE /\ serverShutdown' = [serverShutdown EXCEPT !.closed = TRUE]
                 /\ exitHow' = "panic: Close"
                 /\ ProcessGone
                 /\ UNCHANGED mateConnected

\* main() returns after run()
ProcessExit ==
  /\ pcMain = "exited"
  /\ ProcessGone
  /\ UNCHANGED <<mateConnected, closeCalls, exitHow>>
  /\ UNCHANGED chanVars

connect == ConnectAttempt \/ ConnectTimeout

run ==
  \/ NewSimMate
  \/ connect
  \/ Shutdown
  \/ ProcessExit

\* ------------------------------------------------------- the specification
Init ==
  /\ Requests = <<>>
  /\ simVars = <<>>
  /\ nextDefineID = 1
  /\ idPolicy \in IdPolicies
  /\ conn = [c \in Clients |-> "new"]
  /\ pcTick = "off"
  /\ todo = <<>>
  /\ outbox = <<>>
  /\ mateVal = <<>>
  /\ during = 0
  /\ writes = <<>>
  /\ unhandled = FALSE
  /\ pcMain = "init"
  /\ mateSet = FALSE
  /\ mateConnected = FALSE
  /\ timeoutSeconds \in 0..MaxTimeout
  /\ clock = 0
  /\ tickC = FALSE
  /\ timerC = FALSE
  /\ count = 0
  /\ done = [buf |-> 0, closed |-> FALSE]
  /\ serverShutdown = [buf |-> 0, closed |-> FALSE]
  /\ pcSig = "off"
  /\ closeCalls = 0
  /\ quit = FALSE
  /\ exitHow = ""

Next ==
  \/ handleSocketMessages
  \/ dataEvents
  \/ HandleEvents
  \/ handleTerminationSignal
  \/ run
  \/ TimePasses

Spec == Init /\ [][Next]_vars

\* sessions nobody ends: no termination signal arrives and the simulator
\* does not quit, so run() stays in <-app.done once connected
NextRegistry ==
  \/ handleSocketMessages
  \/ OnDataReady
  \/ NewSimMate
  \/ connect
  \/ ProcessExit
  \/ TimePasses

SpecRegistry == Init /\ [][NextRegistry]_vars

\* sessions that end in every way, their clients registering from a short
\* menu
LifecycleMetas == {"panel1"}

LifecycleLists == { <<>>, <<Entry(K1, "spd")>> }

NextLifecycle ==
  \/ socketEvents(LifecycleMetas, LifecycleLists)
  \/ HandleEvents
  \/ handleTerminationSignal
  \/ run
  \/ TimePasses

SpecLifecycle == Init /\ [][NextLifecycle]_vars

\* the sessions of SpecRegistry with the short register menu and every
\* message in DataMessages
NextControl ==
  \/ socketEvents(LifecycleMetas, LifecycleLists)
  \/ dataEvents
  \/ OnDataReady
  \/ NewSimMate
  \/ connect
  \/ ProcessExit
  \/ TimePasses

SpecControl == Init /\ [][NextControl]_vars

\* ------------------------------------------------------------- the claims
\* the provider's registrations of a key, and the subscription entries that
\* reference them (defs names the key of every define id in sight)
HandlesOf(defs, key) == {h \in DOMAIN defs : defs[h] = key}

Subscriptions(reqs, defs, key) ==
  UNION {{<<i, h>> : h \in DOMAIN reqs[i].Vars \cap HandlesOf(defs, key)} : i \in 1..Len(reqs)}

NoLeak ==
  \A h \in DOMAIN simVars : \E i \in 1..Len(Requests) : h \in DOMAIN Requests[i].Vars

C1Step ==
  pcMain' # "dead" =>
    \A key \in Keys :
      LET defs == simVars' @@ simVars
          before == Cardinality(Subscriptions(Requests, defs, key))
          after == Cardinality(Subscriptions(Requests', defs, key))
          created == HandlesOf(simVars', key) \ HandlesOf(simVars, key)
          destroyed == HandlesOf(simVars, key) \ HandlesOf(simVars', key)
      IN /\ Cardinality(created) = IF before = 0 /\ after > 0 THEN 1 ELSE 0
         /\ Cardinality(destroyed) = IF before > 0 /\ after = 0 THEN 1 ELSE 0

\* C1: over every sequence of register, deregister and disconnect events a
\* key's provider registration is created exactly when the number of
\* subscriptions referencing it goes from 0 to 1 and removed exactly when it
\* goes back to 0, and no registration stays live that no Request references
C1_RegistrationPerTransition == []NoLeak /\ [][C1Step]_vars

\* the number of subscription entries that reference define id h
EntriesOn(h) == Cardinality({i \in 1..Len(Requests) : h \in DOMAIN Requests[i].Vars})

\* C2: at every reachable state a key has at most one live registration,
\* and the reference count the registry reports for it (RefCount of its
\* name) is the number of subscription entries that reference it
C2_OneRegistrationPerKey ==
  /\ \A key \in Keys : Cardinality(HandlesOf(simVars, key)) <= 1
  /\ \A h \in DOMAIN simVars : RefCount(Requests, simVars[h].name) = EntriesOn(h)

HasRequest(reqs, c) == \E i \in 1..Len(reqs) : reqs[i].ClientID = c

RequestsOf(reqs, c) == SelectSeq(reqs, LAMBDA r : r.ClientID = c)

\* the step appends a Send addressed to c to the transport calls
SendsTo(c) ==
  /\ Len(outbox') = Len(outbox) + 1
  /\ outbox'[Len(outbox')].call = "Send"
  /\ c \in outbox'[Len(outbox')].to

C3Step ==
  \A c \in Clients :
    /\ (Deregister(c) \/ ClientDisconnected(c)) =>
         /\ ~HasRequest(Requests', c)
         /\ \A name \in Names :
              RefCount(Requests', name)
                = RefCount(Requests, name) - RefCount(RequestsOf(Requests, c), name)
    /\ (~HasRequest(Requests, c) /\ HasRequest(Requests', c)) =>
         \E meta \in Metas, data \in DataLists : Register(c, meta, data)
    /\ (~HasRequest(todo, c) /\ HasRequest(todo', c)) =>
         OnDataReadyBegin /\ HasRequest(Requests, c)
    /\ SendsTo(c) => HasRequest(todo, c)

\* C3: removeRequests(c), on a deregister message or on the disconnect
\* event, leaves no Request of c in the registry and lowers the reference
\* counts by c's subscriptions; a Request of c comes back only by a register
\* message of c; OnDataReady visits a Request of c only if c had one when the
\* callback began, and sends a simvars payload to c only for such a Request
C3_RemovedClientIsQuiet == [][C3Step]_vars

\* c1 registered, then left and its Request was removed, c2 never came; a
\* callback that began afterwards has finished and sent the status alone
C3_Witness ==
  /\ conn["c1"] = "closed" /\ conn["c2"] = "new"
  /\ nextDefineID > 1 /\ Requests = <<>>
  /\ pcTick = "done" /\ during = 0 /\ Len(outbox) = 1

\* the aliases of the Request c registered last
LatestAliases(c) ==
  LET mine == RequestsOf(Requests, c)
  IN IF mine = <<>> THEN {}
     ELSE {mine[Len(mine)].Vars[h].Moniker : h \in DOMAIN mine[Len(mine)].Vars}

\* C4: once a client has registered again, a callback that runs from start
\* to end with no socket event in between sends that client no payload
\* carrying an alias that its latest register message does not list
C4_ReRegisterReplaces ==
  (pcTick = "done" /\ during = 0) =>
    \A i \in 1..Len(outbox) :
      outbox[i].call = "Send" =>
        \A c \in outbox[i].to : DOMAIN outbox[i].msg.data \subseteq LatestAliases(c)

\* the Send calls among the transport calls of the running callback
Sends == SelectSeq(outbox, LAMBDA call : call.call = "Send")

\* the subscriptions of a Request the provider has a value for
Found(request) ==
  {h \in DOMAIN request.Vars \cap DOMAIN simVars : h \in DOMAIN mateVal /\ mateVal[h] # "nil"}

\* msg is the payload the claim describes for request
PayloadOf(request, msg) ==
  /\ msg.type = "simvars"
  /\ msg.meta = request.Meta
  /\ DOMAIN msg.data = {request.Vars[h].Moniker : h \in Found(request)}
  /\ \A a \in DOMAIN msg.data :
       \E h \in Found(request) :
         /\ request.Vars[h].Moniker = a
         /\ msg.data[a].of = simVars[h]
         /\ msg.data[a].nan = (mateVal[h] = "nan")

\* C5: a callback that runs from start to end with no socket event in
\* between has sent, for every live Request in turn, exactly one simvars
\* payload, to the Request's client alone, with the Request's meta and with
\* the provider's value under the alias of every subscription that has one
C5_OnePayloadPerRequest ==
  (pcTick = "done" /\ during = 0) =>
    /\ Len(Sends) = Len(Requests)
    /\ \A i \in 1..Len(Sends) :
         /\ Sends[i].to = {Requests[i].ClientID}
         /\ PayloadOf(Requests[i], Sends[i].msg)

Broadcasts == SelectSeq(outbox, LAMBDA call : call.call = "Broadcast")

\* the step appends a Broadcast to the transport calls
BroadcastsNow ==
  /\ Len(outbox') = Len(outbox) + 1
  /\ outbox'[Len(outbox')].call = "Broadcast"

C6Inv ==
  /\ pcTick = "loop" => Broadcasts = <<>>
  /\ pcTick = "done" => /\ Len(Broadcasts) = 1
                        /\ outbox[Len(outbox)].call = "Broadcast"

C6Step ==
  /\ BroadcastsNow =>
       LET call == outbox'[Len(outbox')]
       IN /\ todo = <<>>
          /\ call.to = {c \in Clients : conn[c] = "open"}
          /\ call.msg.type = "status"
          /\ \A f \in DOMAIN call.msg.data : call.msg.data[f] = mateConnected
  /\ (pcTick = "loop" /\ pcTick' \notin {"loop", "off"}) => BroadcastsNow

\* C6: every OnDataReady that returns has broadcast exactly one status
\* payload, as its last transport call and so after the simvars payloads of
\* all the Requests it ranged over (none, when there are no Requests); the
\* broadcast goes to all clients connected at that moment and carries
\* mate.IsConnected() of that moment
C6_OneStatusAfterPayloads == []C6Inv /\ [][C6Step]_vars

\* after mate.Close a callback has sent one simvars payload and then told
\* both connected clients that the provider is not connected
C6_Witness ==
  /\ pcTick = "done" /\ Len(outbox) = 2
  /\ outbox[1].call = "Send" /\ outbox[2].call = "Broadcast"
  /\ outbox[2].to = Clients
  /\ \A f \in DOMAIN outbox[2].msg.data : outbox[2].msg.data[f] = FALSE

StatusShape(field) ==
  \A i \in 1..Len(outbox) :
    outbox[i].call = "Broadcast" =>
      /\ outbox[i].msg.type = "status"
      /\ DOMAIN outbox[i].msg = {"type", "data"}
      /\ DOMAIN outbox[i].msg.data = {field}
      /\ outbox[i].msg.data[field] \in BOOLEAN

OpenFailedSoFar == pcMain = "connect" \/ exitHow = "timeout"

C8Inv ==
  OpenFailedSoFar =>
    /\ ~mateConnected
    /\ count <= timeoutSeconds \div connectRetrySeconds
    /\ count <= clock \div connectRetrySeconds
    /\ clock <= timeoutSeconds
    /\ exitHow = "timeout" =>
         /\ clock = timeoutSeconds
         /\ count >= (timeoutSeconds \div connectRetrySeconds) - 1

C8Step ==
  /\ (OpenFailedSoFar /\ count' # count /\ OpenFailedSoFar') =>
       tickC /\ count' = count + 1
  /\ (exitHow = "" /\ exitHow' = "timeout") => timerC /\ clock >= timeoutSeconds
  /\ exitHow = "timeout" => count' = count /\ ~mateConnected' /\ ~ConnectAttempt

\* C8: while Open keeps failing, connect() makes one attempt per retry tick,
\* never more than timeout / retry of them (and, once it has given up, never
\* fewer than that less one), it gives up only when the timeout timer has
\* fired and does so in the second it fires, and after that makes no attempt
C8_RetryUntilTimeout == []C8Inv /\ [][C8Step]_vars

\* timeout 3 s, retry 1 s: three failed attempts, then the timeout error
C8_Witness ==
  /\ exitHow = "timeout" /\ timeoutSeconds = 3 /\ count = 3 /\ clock = 3

EverOpened == mateConnected \/ closeCalls > 0

C9Inv ==
  /\ pcTick # "off" => EverOpened
  /\ ~EverOpened => outbox = <<>> /\ pcSig = "off"
  /\ exitHow = "timeout" => ~EverOpened /\ pcTick = "off"
  /\ exitHow = "bye" => ~mateConnected

C9Step ==
  /\ (pcTick = "off" /\ pcTick' # "off") => ConnectAttempt /\ ~mateConnected /\ mateConnected'
  /\ (~mateConnected /\ mateConnected') => ConnectAttempt /\ closeCalls = 0
  /\ (mateConnected /\ ~mateConnected') => Shutdown
  /\ EverOpened => ~ConnectAttempt /\ pcMain' # "connect"

\* C9: the provider's event loop (OnDataReady, OnQuit) runs only once an
\* Open has succeeded and starts with that success; the connection goes from
\* not connected through connect() to connected and through mate.Close back,
\* never again to connected; no Open is attempted after the first success;
\* after the timeout error the loop is never started and nothing is sent
C9_LifecycleOrder == []C9Inv /\ [][C9Step]_vars

\* connect() has timed out after failed attempts while a client held a
\* Request: the event loop is off and nothing was distributed
C9_Witness ==
  /\ exitHow = "timeout" /\ count > 0 /\ Requests # <<>> /\ pcMain = "exited"

\* run() blocked in <-app.done is woken once the channel holds a value
LiveSpec == SpecLifecycle /\ WF_vars(Shutdown)

ShutDown == closeCalls >= 1 /\ serverShutdown.closed

\* C10: once OnQuit has been delivered, run() goes on to shut down: it calls
\* mate.Close and signals or closes serverShutdown; and no Open is attempted
\* after an OnQuit
C10_QuitShutsDown == (quit ~> ShutDown) /\ [][quit => ~ConnectAttempt]_vars

\* the simulator quit, no termination signal came, and run() has closed the
\* connection and told the web server to shut down
C10_Witness ==
  /\ quit /\ pcSig = "wait" /\ exitHow = "bye"
  /\ closeCalls = 1 /\ serverShutdown.buf = 1

\* what a well-formed message of each type carries: field -> JSON kind
Required(type) ==
  IF type = "teleport"
    THEN [f \in {"latitude", "longitude", "altitude", "heading", "airspeed"} |-> "number"]
    ELSE IF type = "setdata"
      THEN [name |-> "string", unit |-> "string", value |-> "number"]
      ELSE <<>>

WellFormed(msg) ==
  \A f \in DOMAIN Required(msg.type) : msg.data[f].kind = Required(msg.type)[f]

Malformed(msg) == msg.type \in {"setdata", "teleport"} /\ ~WellFormed(msg)

\* C11: a setdata or teleport message with a missing or wrong-typed field, or
\* with no data object at all, is dropped: the process keeps running, nothing
\* is written to the provider, and Requests and registrations are unchanged
C11_MalformedIsDropped ==
  [][\A c \in Clients, msg \in DataMessages :
       (Malformed(msg) /\ DataMessage(c, msg)) =>
         (Alive' /\ exitHow' = exitHow /\ writes' = <<>>
            /\ UNCHANGED <<Requests, simVars, nextDefineID>>)]_vars

\* the variables a teleport writes, in order, and the message fields that
\* give the first of them their values
TeleportTargets ==
  << "PLANE LATITUDE", "PLANE LONGITUDE", "PLANE ALTITUDE", "PLANE HEADING DEGREES TRUE",
     "AIRSPEED TRUE", "PLANE BANK DEGREES", "PLANE PITCH DEGREES" >>

TeleportFields == << "latitude", "longitude", "altitude", "heading", "airspeed" >>

ExpectedTeleport(msg) ==
  [i \in DOMAIN TeleportTargets |->
     [name |-> TeleportTargets[i],
      value |-> IF i \in DOMAIN TeleportFields THEN msg.data[TeleportFields[i]].v ELSE 0]]

NamesAndValues(calls) ==
  [i \in DOMAIN calls |-> [name |-> calls[i].name, value |-> calls[i].value]]

C12Step(msg) ==
  /\ NamesAndValues(writes') = ExpectedTeleport(msg)
  /\ UNCHANGED <<Requests, simVars, nextDefineID>>

\* C12: a well-formed teleport message makes exactly seven writes, to PLANE
\* LATITUDE, PLANE LONGITUDE, PLANE ALTITUDE, PLANE HEADING DEGREES TRUE,
\* AIRSPEED TRUE, PLANE BANK DEGREES and PLANE PITCH DEGREES, with the
\* message's values for the first five and 0 for bank and pitch whatever the
\* message carries, and changes no Request and no registration
C12_TeleportSevenWrites ==
  [][\A c \in Clients, msg \in DataMessages :
       (msg.type = "teleport" /\ WellFormed(msg) /\ DataMessage(c, msg)) => C12Step(msg)]_vars

\* the same once run() has assigned app.mate
C12_TeleportSevenWritesWithMate ==
  [][\A c \in Clients, msg \in DataMessages :
       (msg.type = "teleport" /\ WellFormed(msg) /\ mateSet /\ DataMessage(c, msg)) =>
         C12Step(msg)]_vars

\* removeRequests(c) would change nothing and call RemoveSimVar for nothing
RemoveIsNoOp(c) ==
  /\ KeptRequests(Requests, c) = Requests
  /\ RemoveCalls(c) = <<>>
  /\ RemoveAll(simVars, RemoveCalls(c)) = simVars

RemovesRequestsOf(c) == Deregister(c) \/ ClientDisconnected(c)

C13Step(c) ==
  /\ RemovesRequestsOf(c) => (Alive' /\ RemoveIsNoOp(c)')
  /\ (RemovesRequestsOf(c) /\ ~HasRequest(Requests, c)) =>
       UNCHANGED <<Requests, simVars, nextDefineID>>

HeldUnder(request, a) == {h \in DOMAIN request.Vars : request.Vars[h].Moniker = a}

\* C14: within one Request aliases are unique: a Request holds a single
\* subscription per moniker, and the payload OnDataReady builds for it does
\* not depend on the order in which the Request's subscriptions are ranged
C14_AliasesUnique ==
  \A i \in 1..Len(Requests) :
    /\ \A h \in DOMAIN Requests[i].Vars :
         HeldUnder(Requests[i], Requests[i].Vars[h].Moniker) = {h}
    /\ Cardinality(DataChoices(mateVal, Requests[i])) = 1

KnownTypes == {"register", "deregister", "setdata", "teleport"}

\* C15: a message whose type is none of register, deregister, setdata and
\* teleport (the empty type of a failed decode included) is ignored: Requests
\* and registrations are unchanged, nothing is written to the provider,
\* nothing is sent to a client, and the loop goes on
C15_UnknownTypeIgnored ==
  [][\A c \in Clients, msg \in DataMessages :
       (msg.type \notin KnownTypes /\ DataMessage(c, msg)) =>
         (Alive' /\ writes' = <<>>
            /\ UNCHANGED <<Requests, simVars, nextDefineID, conn, outbox>>)]_vars

\* an unknown message was handled while Requests and registrations exist and
\* a callback that has already sent a payload is running
C15_Witness ==
  /\ unhandled /\ Requests # <<>> /\ simVars # <<>>
  /\ pcTick = "loop" /\ outbox # <<>>

\* the define ids the Requests in reqs hold
HeldIDs(reqs) == UNION {DOMAIN reqs[i].Vars : i \in 1..Len(reqs)}

OthersOf(reqs, c) == SelectSeq(reqs, LAMBDA r : r.ClientID # c)

C16Step ==
  /\ \A h \in DOMAIN simVars \ DOMAIN simVars' : h \notin HeldIDs(Requests')
  /\ \A c \in Clients :
       RemovesRequestsOf(c) =>
         (Alive' /\ Requests' = OthersOf(Requests, c)
            /\ \A h \in HeldIDs(OthersOf(Requests, c)) :
                 h \in DOMAIN simVars' /\ simVars'[h] = simVars[h])

\* C16: no registration is removed at the provider while a Request of any
\* client still holds a subscription on its handle: removing one client's
\* Requests removes only handles no remaining Request holds and leaves the
\* other clients' Requests as they are
C16_NoRemovalWhileHeld ==
  [](HeldIDs(Requests) \subseteq DOMAIN simVars) /\ [][C16Step]_vars

\* c1, removed by its disconnect during a callback, shared a handle with c2,
\* whose Request still holds it and whose registration is still live
C16_Witness ==
  /\ conn["c1"] = "closed" /\ ~HasRequest(Requests, "c1")
  /\ pcTick = "loop"
  /\ \E i \in 1..Len(todo) :
       /\ todo[i].ClientID = "c1"
       /\ \E h \in DOMAIN todo[i].Vars : h \in HeldIDs(Requests) /\ h \in DOMAIN simVars

\* a step of the socket loop that reads or writes the registries
RegistryOperation ==
  \E c \in Clients :
    \/ RemovesRequestsOf(c)
    \/ \E meta \in Metas, data \in DataLists : Register(c, meta, data)

\* the Requests the running OnDataReady has yet to visit, as they are in the
\* registry now
StaleInRange ==
  \E i \in 1..Len(todo) :
    \/ ~\E j \in 1..Len(Requests) : Requests[j] = todo[i]
    \/ ~(DOMAIN todo[i].Vars \subseteq DOMAIN simVars)

\* C17: the registry operations of the socket loop and OnDataReady exclude
\* one another: no register or removal runs while OnDataReady is between its
\* first and its last Request, and OnDataReady never visits a Request that is
\* no longer in the registry or reads a handle that has been deregistered
C17_RegistryMutualExclusion ==
  [](pcTick = "loop" => ~StaleInRange)
    /\ [][(RegistryOperation /\ Alive') => ~(pcTick = "loop" /\ todo # <<>>)]_vars

\* a provider callback is running or begins
CallbackRuns == InOnDataReady \/ pcTick = "quitBlocked"

CallbackBegins == OnDataReadyBegin \/ OnQuit

\* C18: mate.Close is called only once HandleEvents has stopped invoking
\* callbacks: no OnDataReady or OnQuit is running when disconnect() is
\* called, and none begins afterwards
C18_CloseAfterCallbacksStop ==
  [][(closeCalls' > closeCalls => ~CallbackRuns)
       /\ (closeCalls > 0 => ~CallbackBegins)]_vars

\* a sender of app.done is blocked in its send
SenderBlocked == pcSig = "blocked" \/ pcTick = "quitBlocked"

\* a step in which a sender of app.done begins its send
SendsDone == SigTerm \/ OnQuit

\* C19: app.done is safe under every interleaving of its two senders, the
\* signal handler and OnQuit: run() disconnects at most once, no sender
\* sends once run() has closed the channel (a send that panics), and no
\* sender is left blocked in its send when the channel is closed
C19_DoneChannelSafe ==
  [](closeCalls <= 1)
    /\ [](exitHow # "panic: send on closed channel")
    /\ [](done.closed => ~SenderBlocked)
    /\ [][SendsDone => ~done.closed]_vars

\* a step that handles a control message whose handler reaches a call of
\* the gateway: a register with an entry, a removal with an id to remove, a
\* well-formed setdata or teleport
GatewayMessage ==
  \E c \in Clients :
    \/ \E meta \in Metas, data \in DataLists \ {<<>>} : Register(c, meta, data)
    \/ RemovesRequestsOf(c) /\ RemoveCalls(c) # <<>>
    \/ \E msg \in DataMessages :
         msg.type \in {"setdata", "teleport"} /\ WellFormed(msg) /\ DataMessage(c, msg)

\* C20: a control message whose handler calls the gateway (register,
\* deregister or disconnect, setdata, teleport) is handled only once run()
\* has assigned app.mate, and no handler ever calls through a nil app.mate
C20_MateSetBeforeMessages ==
  [](exitHow # "panic: nil mate") /\ [][GatewayMessage => mateSet]_vars

====
